---- MODULE Spec2Model ----
(***************************************************************************)
(* Model of fetch-items.py: the resilient GitHub client (fetch,            *)
(* fetch_paginated, rate-limit tracker, backoff) and the per-record driver *)
(* process_item with its marker files under items/.                        *)
(***************************************************************************)
EXTENDS Integers, Sequences, FiniteSets, TLC

(***************************************************************************)
(* Program constants.                                                      *)
(***************************************************************************)
RATE_LIMIT_BUFFER == 100
MAX_RETRIES == 5
BASE_BACKOFF == 2
\* JITTER = 0.25 is kept as the fraction 1/JITTER_DEN
JITTER_DEN == 4
\* per_page=100 of the page URL and the "len(data) < 100" test
PER_PAGE == 100
\* width of f"{n:06d}"
PAD_WIDTH == 6
\* margins of the two rate-limit sleeps
CHECK_MARGIN == 5
LIMIT_MARGIN == 10

(***************************************************************************)
(* Bounds of the model.                                                    *)
(***************************************************************************)
\* pages a remote list may have: page MaxPages is never a full page
MaxPages == 3
\* length of a last, partly filled page
ShortLen == 37
\* random.random() is drawn from {0/JitterSteps, ..., (JitterSteps-1)/JitterSteps}
JitterSteps == 4
\* clock readings are drawn from {0, 5, .., 5 * MaxTime} (seconds)
MaxTime == 3

\* record IDs given to process_item
Ids == {7}

Components == {"main", "comments", "timeline", "xrefs"}
ListComponents == {"comments", "timeline", "xrefs"}

(***************************************************************************)
(* Strings are sequences of one-character strings; Python compares str     *)
(* values by code point, position by position.                             *)
(***************************************************************************)
Ord(c) ==
    CASE c = "-" -> 45
      [] c = "0" -> 48 [] c = "1" -> 49 [] c = "2" -> 50 [] c = "3" -> 51
      [] c = "4" -> 52 [] c = "5" -> 53 [] c = "6" -> 54 [] c = "7" -> 55
      [] c = "8" -> 56 [] c = "9" -> 57
      [] c = ":" -> 58 [] c = "T" -> 84 [] c = "Z" -> 90

Min(a, b) == IF a < b THEN a ELSE b

\* a < b on str
StrLT(a, b) ==
    \/ \E i \in 1..Min(Len(a), Len(b)) :
          /\ \A j \in 1..(i - 1) : a[j] = b[j]
          /\ Ord(a[i]) < Ord(b[i])
    \/ /\ Len(a) < Len(b)
       /\ \A j \in 1..Len(a) : a[j] = b[j]

\* a >= b on str, the comparison of line 273 (mutant: a > b)
StrGT(a, b) == StrLT(b, a)
StrGE(a, b) == ~StrLT(a, b)

DigitChar(d) == <<"0", "1", "2", "3", "4", "5", "6", "7", "8", "9">>[d + 1]

RECURSIVE Digits(_)
\* decimal digits of n >= 0, most significant first
Digits(n) == IF n < 10 THEN <<DigitChar(n)>> ELSE Digits(n \div 10) \o <<DigitChar(n % 10)>>

RECURSIVE ZeroPad(_, _)
\* f"{n:0wd}": zeros on the left up to width w, never truncating
ZeroPad(s, w) == IF Len(s) >= w THEN s ELSE ZeroPad(<<"0">> \o s, w)

padded(n) == ZeroPad(Digits(n), PAD_WIDTH)

CUTOFF_DATE ==
    <<"2", "0", "1", "6", "-", "0", "1", "-", "0", "1", "T",
      "0", "0", ":", "0", "0", ":", "0", "0", "Z">>

(***************************************************************************)
(* Creation times the API serves.  A time is <<year, month, day, hour,     *)
(* minute, second>> (UTC); the API writes it as YYYY-MM-DDTHH:MM:SSZ.      *)
(***************************************************************************)
Timestamps ==
    { <<2010, 6, 16, 9, 30, 5>>, <<2015, 12, 31, 23, 59, 59>>,
      <<2016, 1, 1, 0, 0, 0>>, <<2016, 1, 1, 0, 0, 1>>, <<2016, 10, 2, 7, 8, 9>> }

ApiFormat(t) ==
    ZeroPad(Digits(t[1]), 4) \o <<"-">> \o ZeroPad(Digits(t[2]), 2) \o <<"-">>
      \o ZeroPad(Digits(t[3]), 2) \o <<"T">> \o ZeroPad(Digits(t[4]), 2) \o <<":">>
      \o ZeroPad(Digits(t[5]), 2) \o <<":">> \o ZeroPad(Digits(t[6]), 2) \o <<"Z">>

\* position of a time on the time line: seconds since 2000, months of 31 days
Instant(t) ==
    (((((t[1] - 2000) * 12 + t[2]) * 31 + t[3]) * 24 + t[4]) * 60 + t[5]) * 60 + t[6]

(***************************************************************************)
(* Python values.  None, and the JSON values response.json() can return:   *)
(* null (None again), an object, a list, anything else (a number, a        *)
(* string).  An object carries what the program reads of it.               *)
(***************************************************************************)
NoStr == [k |-> "missing", s |-> <<>>]
NullStr == [k |-> "null", s |-> <<>>]
Str(s) == [k |-> "str", s |-> s]

PyNone == [t |-> "none", created_at |-> NoStr, pull_request |-> FALSE, items |-> <<>>]
JDict(ca, pr) == [t |-> "dict", created_at |-> ca, pull_request |-> pr, items |-> <<>>]
JList(items) == [t |-> "list", created_at |-> NoStr, pull_request |-> FALSE, items |-> items]
JScalar == [t |-> "scalar", created_at |-> NoStr, pull_request |-> FALSE, items |-> <<>>]

\* an optional integer (int | None)
NoInt == [known |-> FALSE, v |-> 0]
Int_(n) == [known |-> TRUE, v |-> n]

(***************************************************************************)
(* What the API can answer.  A response is a timeout, a transport error,   *)
(* or an HTTP response with a status, the two rate-limit headers (each     *)
(* present or not) and a body that parses as JSON or does not.             *)
(***************************************************************************)
Statuses == {200, 404, 403, 429, 500}

NoHeaders == [remaining |-> NoInt, reset |-> NoInt]

Http(status, hdr, ok, json) ==
    [kind |-> "http", status |-> status, hdr |-> hdr, ok |-> ok, json |-> json]
Failure(kind) ==
    [kind |-> kind, status |-> 0, hdr |-> NoHeaders, ok |-> FALSE, json |-> PyNone]
NoResponse == Failure("none")

\* item n of a remote list, in API order: page p holds items (p-1)*100+1 ..
PageItems(p, len) == [i \in 1..len |-> (p - 1) * PER_PAGE + i]

\* a timeline page whose first event is malformed (a negative item)
BadPageItems(p, len) == [i \in 1..len |-> IF i = 1 THEN 0 - ((p - 1) * PER_PAGE + 1)
                                                   ELSE (p - 1) * PER_PAGE + i]

PageLens(p) == IF p < MaxPages THEN {0, ShortLen, PER_PAGE} ELSE {0, ShortLen}

\* bodies of GET /repos/{REPO}/issues/{num}
MainBodies ==
    {PyNone, JScalar, JList(<<>>)}
      \cup {JDict(ca, pr) : ca \in {NoStr, NullStr} \cup {Str(ApiFormat(t)) : t \in Timestamps},
                            pr \in BOOLEAN}

\* bodies of page p of a list endpoint
ListBodies(c, p) ==
    {PyNone, JDict(NoStr, FALSE)}
      \cup {JList(PageItems(p, len)) : len \in PageLens(p)}
      \cup (IF c # "xrefs" THEN {}
            ELSE {JList(BadPageItems(p, len)) : len \in PageLens(p) \ {0}})

\* bodies of the listing GET /repos/{REPO}/issues?...&per_page=1
DiscoverBodies ==
    {PyNone, JScalar, JDict(NoStr, FALSE), JList(<<>>)} \cup {JList(<<n>>) : n \in Ids}

Bodies(c, p) ==
    IF c = "main" THEN MainBodies
    ELSE IF c = "discover" THEN DiscoverBodies
    ELSE ListBodies(c, p)

\* rate-limit headers a response can carry: none, or a quota below or at the
\* buffer with a reset time that is 0 or later
Headers ==
    {NoHeaders,
     [remaining |-> Int_(RATE_LIMIT_BUFFER - 1), reset |-> Int_(CHECK_MARGIN)],
     [remaining |-> Int_(RATE_LIMIT_BUFFER), reset |-> Int_(CHECK_MARGIN)],
     [remaining |-> Int_(RATE_LIMIT_BUFFER - 1), reset |-> Int_(0)],
     [remaining |-> Int_(RATE_LIMIT_BUFFER - 1), reset |-> NoInt],
     [remaining |-> NoInt, reset |-> Int_(CHECK_MARGIN)]}

\* readings of the clock
Times == {CHECK_MARGIN * k : k \in 0..MaxTime}

\* draws of random.random(), as numerators over JitterSteps
Jitters == 0..(JitterSteps - 1)

\* responses to a request of component c, page p, with headers out of hdrs
Responses(c, p, hdrs) ==
    {Failure("timeout"), Failure("error")}
      \cup {Http(s, h, FALSE, PyNone) : s \in Statuses, h \in hdrs}
      \cup {Http(200, h, TRUE, b) : h \in hdrs, b \in Bodies(c, p)}

(***************************************************************************)
(* State.                                                                  *)
(***************************************************************************)
VARIABLES
    store,          \* the files of items/: a set of <<padded id, suffix>>
    pc,             \* position of the process
    num, do,        \* arguments of the running process_item
    stats,          \* its stats dict
    status_parts,   \* its status_parts list, as <<component, status>> pairs
    attempt,        \* fetch: loop variable
    fstate,         \* fetch: "idle", "running", "returned" or "raised"
    ret,            \* fetch: value returned
    page,           \* fetch_paginated: page
    all_items,      \* fetch_paginated: all_items
    pstate,         \* fetch_paginated: "idle", "running", "returned" or "raised"
    rate_remaining, \* client.rate_remaining
    rate_reset,     \* client.rate_reset
    now,            \* last reading of the clock, int(time.time())
    \* history of the run, read by no action:
    store0,         \* store when the running process_item was entered
    reqs,           \* components the running process_item has sent a request for
    first,          \* how the previous process_item ended when it had the same arguments
    nreq,           \* requests sent by the running fetch
    ntrans,         \* of these, ended in a transient error
    nlimit,         \* of these, ended in a 403/429 response
    last,           \* the last answer to the running fetch (NoResponse: none yet)
    backoff,        \* duration of the last backoff_sleep of the running fetch, in ticks
    backoffs,       \* number of backoff_sleep calls of the running fetch
    since,          \* sleeps since the last request: <<kind, ticks>> pairs
    served,         \* fetch_paginated: the pages fetch has returned, in order
    recv0,          \* components whose data the terminated process before had received
    \* extract_xrefs called on its own:
    timeline,       \* its argument, a list of events
    xrefs,          \* its list xrefs
    event           \* position in timeline of the event the loop is at

vars == <<store, pc, num, do, stats, status_parts, attempt, fstate, ret, page, all_items,
          pstate, rate_remaining, rate_reset, now, store0, reqs, first, nreq, ntrans,
          nlimit, last, backoff, backoffs, since, served, recv0, timeline, xrefs, event>>

extractVars == <<timeline, xrefs, event>>

procVars == <<store, num, do, stats, status_parts, store0, first, recv0, extractVars>>
pagVars == <<page, all_items, pstate, served>>
fetchVars == <<attempt, fstate, ret>>
clientVars == <<rate_remaining, rate_reset, now>>
histVars == <<nreq, ntrans, nlimit, last, backoff, backoffs, since>>

\* ticks per second: durations are counted in 1/(JITTER_DEN*JitterSteps) s
Tick == JITTER_DEN * JitterSteps

(***************************************************************************)
(* Backoff policy and rate-limit tracker.                                  *)
(***************************************************************************)
RECURSIVE Pow(_, _)
Pow(b, e) == IF e = 0 THEN 1 ELSE b * Pow(b, e - 1)

\* mutant: the base does not grow with the attempt
backoff_sleep_flat(a, j) == BASE_BACKOFF * (Tick + 2 * j - JitterSteps)

\* sleep_time of backoff_sleep(a) when random.random() = j/JitterSteps, in ticks:
\* base + base * JITTER * (2r - 1)
backoff_sleep(a, j) == Pow(BASE_BACKOFF, a) * (Tick + 2 * j - JitterSteps)

\* _update_rate_limit: a header that is present replaces the value held
update_rate_limit(old, hdr) == IF hdr.known THEN hdr ELSE old

\* _check_rate_limit: seconds slept when the clock reads t (0: no sleep)
check_rate_limit(rem, reset, t) ==
    IF rem.known /\ rem.v < RATE_LIMIT_BUFFER /\ reset.known /\ reset.v # 0
         /\ reset.v - t + CHECK_MARGIN > 0
    THEN reset.v - t + CHECK_MARGIN ELSE 0

\* _handle_rate_limit_response: seconds slept when the clock reads t
handle_rate_limit_response(reset, t) ==
    IF reset.known /\ reset.v # 0 /\ reset.v - t + LIMIT_MARGIN > 0
    THEN reset.v - t + LIMIT_MARGIN ELSE 0

\* does the code read the clock in these functions?
ChecksClock(rem, reset) == rem.known /\ rem.v < RATE_LIMIT_BUFFER /\ reset.known /\ reset.v # 0
LimitReadsClock(reset) == reset.known /\ reset.v # 0

Sleeps(kind, ticks) == IF ticks > 0 THEN <<(<<kind, ticks>>)>> ELSE <<>>

(***************************************************************************)
(* GitHubClient.fetch.  A call starts with FetchBegin (part of the         *)
(* caller's step); every FetchAttempt is one pass of the retry loop: the   *)
(* request, its response and the sleep that follows.                       *)
(***************************************************************************)
FetchPcs == {"main_fetch", "comments_fetch", "timeline_fetch", "xrefs_fetch", "discover_fetch"}

\* the component a fetch at pc works for
Component(p) ==
    CASE p = "main_fetch" -> "main"
      [] p = "comments_fetch" -> "comments"
      [] p = "timeline_fetch" -> "timeline"
      [] p = "xrefs_fetch" -> "xrefs"
      [] OTHER -> "discover"

\* the endpoint under /repos/{REPO}/issues the fetch of a component asks:
\* lines 264, 307, 324, 341
Endpoint(c) ==
    CASE c = "main" -> "{num}"
      [] c = "comments" -> "{num}/comments"
      [] c = "timeline" -> "{num}/timeline"
      [] c = "xrefs" -> "{num}/timeline"
      [] OTHER -> "?state=all&sort=created&direction=desc&per_page=1"

FetchBegin ==
    /\ attempt' = 0
    /\ fstate' = "running"
    /\ ret' = PyNone
    /\ nreq' = 0 /\ ntrans' = 0 /\ nlimit' = 0 /\ backoff' = 0 /\ backoffs' = 0
    /\ last' = NoResponse
    /\ UNCHANGED since

\* how one pass of the loop ends
Outcome(resp) ==
    IF resp.kind # "http" THEN "transient"
    ELSE IF resp.status = 404 THEN "absent"
    ELSE IF resp.status \in {403, 429} THEN "limit"
    ELSE IF resp.status # 200 THEN "transient"
    ELSE IF resp.ok THEN "value" ELSE "transient"

\* mutant: a rate-limit response does not use up an attempt
NextAttemptFreeLimit(a, out) == IF out = "limit" THEN a ELSE a + 1

\* the loop variable after a pass that ended in "continue" (or in a caught exception)
NextAttempt(a, out) == a + 1

\* mutant: the budget is one attempt short
ExhaustedEarly(a) == a >= MAX_RETRIES - 1

\* range(MAX_RETRIES) is used up
Exhausted(a) == a >= MAX_RETRIES

\* the tracker after _update_rate_limit(response), if there is a response
Remaining2(resp) ==
    IF resp.kind = "http" THEN update_rate_limit(rate_remaining, resp.hdr.remaining)
    ELSE rate_remaining
Reset2(resp) ==
    IF resp.kind = "http" THEN update_rate_limit(rate_reset, resp.hdr.reset)
    ELSE rate_reset

\* does the pass read the clock
ReadsClock(resp) ==
    \/ Outcome(resp) = "limit" /\ LimitReadsClock(Reset2(resp))
    \/ resp.kind = "http" /\ resp.status = 200 /\ ChecksClock(Remaining2(resp), Reset2(resp))

\* the sleeps of the pass, in order, as <<kind, ticks>>: time.sleep of
\* _handle_rate_limit_response, of _check_rate_limit, of backoff_sleep
Slept(resp, j, t) ==
    LET out == Outcome(resp)
        limit == IF out = "limit"
                 THEN Sleeps("limit", handle_rate_limit_response(Reset2(resp), t) * Tick)
                 ELSE <<>>
        check == IF resp.kind = "http" /\ resp.status = 200
                 THEN Sleeps("check", check_rate_limit(Remaining2(resp), Reset2(resp), t) * Tick)
                 ELSE <<>>
        back == IF out = "transient"
                THEN <<(<<"backoff", backoff_sleep(attempt, j)>>)>> ELSE <<>>
    IN limit \o check \o back

\* one pass: resp is what the API answers, j the random draw of backoff_sleep,
\* t the clock reading should the pass read the clock.  The locals of fetch
\* are gone when it returns or raises.
FetchAttempt(resp, j, t) ==
    /\ pc \in FetchPcs
    /\ fstate = "running"
    /\ ~Exhausted(attempt)
    /\ LET out == Outcome(resp)
           again == out \in {"limit", "transient"}
           a2 == IF again THEN NextAttempt(attempt, out) ELSE attempt
       IN
       /\ rate_remaining' = Remaining2(resp)
       /\ rate_reset' = Reset2(resp)
       /\ now' = IF ReadsClock(resp) THEN t ELSE now
       /\ ret' = IF out = "value" THEN resp.json ELSE PyNone
       /\ fstate' = IF ~again THEN "returned"
                    ELSE IF Exhausted(a2) THEN "raised" ELSE "running"
       /\ attempt' = IF again /\ ~Exhausted(a2) THEN a2 ELSE 0
    /\ UNCHANGED pc
    /\ UNCHANGED procVars
    /\ UNCHANGED pagVars

\* what an answer is in the error taxonomy: "absent" (404), "limit" (403 or
\* 429), "value" (200 with a body that parses), "transient" (any other
\* status, a timeout, a transport error, a body that does not parse)
Taxonomy(resp) ==
    CASE resp.kind # "http" -> "transient"
      [] resp.kind = "http" /\ resp.status = 404 -> "absent"
      [] resp.kind = "http" /\ resp.status \in {403, 429} -> "limit"
      [] resp.kind = "http" /\ resp.status = 200 /\ resp.ok -> "value"
      [] OTHER -> "transient"

\* the history of the running fetch, after a pass
Observe(resp, j, t) ==
    LET out == Taxonomy(resp) IN
    /\ nreq' = nreq + 1
    /\ ntrans' = IF out = "transient" THEN ntrans + 1 ELSE ntrans
    /\ nlimit' = IF out = "limit" THEN nlimit + 1 ELSE nlimit
    /\ last' = resp
    /\ since' = Slept(resp, j, IF ReadsClock(resp) THEN t ELSE now)
    /\ LET s == Slept(resp, j, IF ReadsClock(resp) THEN t ELSE now)
           b == Len(s) > 0 /\ s[Len(s)][1] = "backoff"
       IN /\ backoff' = IF b THEN s[Len(s)][2] ELSE backoff
          /\ backoffs' = IF b THEN backoffs + 1 ELSE backoffs

(***************************************************************************)
(* GitHubClient.fetch_paginated.  PagBegin is part of the caller's step;   *)
(* PageDone is the loop body after fetch has returned a page.              *)
(***************************************************************************)
PagPcs == {"comments_fetch", "timeline_fetch", "xrefs_fetch"}

PagBegin ==
    /\ page' = 1
    /\ all_items' = <<>>
    /\ served' = <<>>
    /\ pstate' = "running"
    /\ FetchBegin

\* mutant: a short page ends the loop before it is added
LastPageDropped(items, data) == IF Len(data) < PER_PAGE THEN items ELSE items \o data

\* all_items.extend(data)
Extend(items, data) == items \o data

\* mutant: only an empty page ends the loop
IsLastPageOnlyEmpty(data) == Len(data) = 0

\* lines 155 and 160: the page that ends the loop
IsLastPage(data) == Len(data) < PER_PAGE

PageDone ==
    /\ pc \in PagPcs
    /\ pstate = "running"
    /\ fstate = "returned"
    /\ IF ret.t = "none"
       THEN /\ pstate' = "returned"
            /\ served' = Append(served, ret)
            /\ UNCHANGED <<page, all_items>>
            /\ UNCHANGED <<fetchVars, histVars>>
       ELSE IF ret.t # "list"
       THEN /\ pstate' = "raised"
            /\ UNCHANGED <<page, all_items, served>>
            /\ UNCHANGED <<fetchVars, histVars>>
       ELSE IF Len(ret.items) = 0
       THEN /\ pstate' = "returned"
            /\ served' = Append(served, ret)
            /\ UNCHANGED <<page, all_items>>
            /\ UNCHANGED <<fetchVars, histVars>>
       ELSE /\ all_items' = Extend(all_items, ret.items)
            /\ served' = Append(served, ret)
            /\ IF IsLastPage(ret.items)
               THEN /\ pstate' = "returned"
                    /\ UNCHANGED page
                    /\ UNCHANGED <<fetchVars, histVars>>
               ELSE /\ page' = page + 1
                    /\ pstate' = "running"
                    /\ FetchBegin
    /\ UNCHANGED <<pc, reqs>>
    /\ UNCHANGED procVars
    /\ UNCHANGED clientVars

(***************************************************************************)
(* extract_xrefs.  An event is what the function reads of a timeline       *)
(* item: whether it is a dict, its "event", the number of source.issue     *)
(* (0: none), its commit_id (0: none), and whether "source" is a value     *)
(* that has no get() (the function then raises).                           *)
(***************************************************************************)
Event(isdict, ev, number, commit, badsource) ==
    [isdict |-> isdict, event |-> ev, number |-> number, commit |-> commit,
     badsource |-> badsource]

\* the event that is item n of the remote timeline
EventOf(n) ==
    IF n < 0 THEN Event(TRUE, "cross-referenced", 0, 0, TRUE)
    ELSE CASE n % 6 = 0 -> Event(TRUE, "cross-referenced", n, 0, FALSE)
           [] n % 6 = 1 -> Event(TRUE, "labeled", 0, 0, FALSE)
           [] n % 6 = 2 -> Event(TRUE, "referenced", 0, n, FALSE)
           [] n % 6 = 3 -> Event(TRUE, "cross-referenced", 0, 0, FALSE)
           [] n % 6 = 4 -> Event(TRUE, "referenced", 0, 0, FALSE)
           [] OTHER -> Event(FALSE, "", 0, 0, FALSE)

\* does extract_xrefs raise on this event (source.get on a non-dict)
EventRaises(e) == e.isdict /\ e.event = "cross-referenced" /\ e.badsource

\* mutant: a referenced event is kept without its commit_id
EmitsEveryReference(e) ==
    /\ e.isdict
    /\ \/ e.event = "cross-referenced" /\ e.number # 0
       \/ e.event = "referenced"

\* does the loop body append a record for this event
Emits(e) ==
    /\ e.isdict
    /\ \/ e.event = "cross-referenced" /\ e.number # 0
       \/ e.event = "referenced" /\ e.commit # 0

\* the record appended: lines 192-198 and 203-208
Xref(e) ==
    IF e.event = "cross-referenced"
    THEN [event |-> "cross-referenced", ref |-> e.number]
    ELSE [event |-> "referenced", ref |-> e.commit]

\* the loop of extract_xrefs: the records of the events that emit one, in the
\* order of the events; the function raises at the first event that raises
extract_xrefs(events) ==
    LET emitting == SelectSeq(events, Emits) IN
    [raised |-> \E i \in 1..Len(events) : EventRaises(events[i]),
     xrefs |-> [i \in 1..Len(emitting) |-> Xref(emitting[i])]]

\* the timeline list fetch_paginated returns, as events
Timeline(items) == [i \in 1..Len(items) |-> EventOf(items[i])]

(***************************************************************************)
(* Marker files.                                                           *)
(***************************************************************************)
SuccessSuffix(c) ==
    CASE c = "main" -> "-main.json"
      [] c = "comments" -> "-comments.json"
      [] c = "timeline" -> "-timeline.json"
      [] c = "xrefs" -> "-xrefs.json"

FailedSuffix(c) ==
    CASE c = "main" -> "-main.failed"
      [] c = "comments" -> "-comments.failed"
      [] c = "timeline" -> "-timeline.failed"
      [] c = "xrefs" -> "-xrefs.failed"

Path(n, suffix) == <<padded(n), suffix>>
path_404(n) == Path(n, ".404")
path_skip(n) == Path(n, ".skip")
path_ok(n, c) == Path(n, SuccessSuffix(c))
path_failed(n, c) == Path(n, FailedSuffix(c))

exists(st, path) == path \in st
write_text(st, path) == st \cup {path}
\* mutant: the failure marker is left in place
unlink_nothing(st, path) == st

\* Path.unlink(missing_ok=True)
unlink(st, path) == st \ {path}
\* mutant: the failure is not recorded
write_failed_nothing(st, path) == st

\* write_failed: path.write_text(..)
write_failed(st, path) == st \cup {path}

ZeroStats == [fetched |-> 0, skip_404 |-> 0, skip_date |-> 0, skip_exists |-> 0, failed |-> 0]

Flags == [Components -> BOOLEAN]

\* number of components asked for
Requested(d) == Cardinality({c \in Components : d[c]})

\* how a finished process_item ended, from its stats: with a terminal marker
\* ("terminal"), with every requested component fetched or there ("clean"),
\* or otherwise ("other"); "killed" stands for a process_item that did not
\* finish because its process was terminated
Ending(st, d) ==
    IF st.skip_404 = 1 \/ st.skip_date = 1 THEN "terminal"
    ELSE IF st.failed = 0 /\ st.fetched + st.skip_exists = Requested(d) THEN "clean"
    ELSE "other"

(***************************************************************************)
(* process_item.  One action per stretch of code between two points where  *)
(* the process waits for the network or touches a marker file.             *)
(***************************************************************************)
\* mutant: the terminal markers are not looked at
TerminalNever(st, n) == "none"

\* mutant: only the not-found marker is looked at
TerminalOnly404(st, n) == IF exists(st, path_404(n)) THEN "skip_404" ELSE "none"

\* lines 250-255: the classification a terminal marker gives, or "none"
Terminal(st, n) ==
    IF exists(st, path_404(n)) THEN "skip_404"
    ELSE IF exists(st, path_skip(n)) THEN "skip_date"
    ELSE "none"

\* no client call is running: the locals of fetch and fetch_paginated are gone
ClientIdle ==
    /\ attempt' = 0 /\ fstate' = "idle" /\ ret' = PyNone
    /\ nreq' = 0 /\ ntrans' = 0 /\ nlimit' = 0 /\ backoff' = 0 /\ backoffs' = 0
    /\ last' = NoResponse
    /\ UNCHANGED since
    /\ page' = 0 /\ all_items' = <<>> /\ pstate' = "idle" /\ served' = <<>>

\* process_item(client, n, d.main, d.comments, d.timeline, d.xrefs) is entered.
\* fresh: the call is the first of a new process, whose main has built a new
\* GitHubClient (line 372; lines 77-78: nothing known of the quota); otherwise
\* it is the next call on the client of the call before (line 390).  After a
\* termination and before the first call the process is a new one.
Start(n, d, fresh) ==
    /\ pc \in {"idle", "done", "killed"}
    /\ pc # "done" => fresh
    /\ num' = n
    /\ do' = d
    /\ status_parts' = <<>>
    /\ store0' = store
    /\ reqs' = {}
    /\ first' = IF pc = "done" /\ num = n /\ do = d THEN Ending(stats, d)
                ELSE IF pc = "killed" /\ num = n /\ do = d THEN "killed"
                ELSE "none"
    /\ recv0' = IF pc = "killed" /\ num = n /\ do = d THEN recv0 ELSE {}
    /\ UNCHANGED extractVars
    /\ LET term == Terminal(store, n) IN
       IF term = "none"
       THEN /\ stats' = ZeroStats
            /\ pc' = "main"
       ELSE /\ stats' = [ZeroStats EXCEPT ![term] = 1]
            /\ pc' = "return"
    /\ ClientIdle
    /\ UNCHANGED store
    /\ rate_remaining' = IF fresh THEN NoInt ELSE rate_remaining
    /\ rate_reset' = IF fresh THEN NoInt ELSE rate_reset
    /\ UNCHANGED now

\* mutant: an existing success marker does not stop the fetch
SkipsNever(st, n, c) == FALSE

\* mutant: xrefs are taken from a timeline that is already there
SkipsXrefsWithTimeline(st, n, c) ==
    \/ exists(st, path_ok(n, c))
    \/ c = "xrefs" /\ exists(st, path_ok(n, "timeline"))

\* mutant: a component with a failure marker is fetched again
SkipsUnlessFailed(st, n, c) == exists(st, path_ok(n, c)) /\ ~exists(st, path_failed(n, c))

\* mutant: only main is skipped when it is there
SkipsOnlyMain(st, n, c) == c = "main" /\ exists(st, path_ok(n, c))

\* lines 259, 302, 319, 336: the component is already there
Skips(st, n, c) == exists(st, path_ok(n, c))

\* lines 258-264
MainCheck ==
    /\ pc = "main"
    /\ IF ~do["main"]
       THEN /\ pc' = "gate"
            /\ UNCHANGED <<stats, status_parts>>
            /\ UNCHANGED <<fetchVars, histVars>>
       ELSE IF Skips(store, num, "main")
       THEN /\ pc' = "gate"
            /\ status_parts' = Append(status_parts, <<"main", "EXISTS">>)
            /\ stats' = [stats EXCEPT !.skip_exists = @ + 1]
            /\ UNCHANGED <<fetchVars, histVars>>
       ELSE /\ pc' = "main_fetch"
            /\ FetchBegin
            /\ UNCHANGED <<stats, status_parts>>
    /\ UNCHANGED <<store, num, do, store0, first, recv0, reqs, extractVars>>
    /\ UNCHANGED pagVars
    /\ UNCHANGED clientVars

\* lines 287-292: the handler of the main block
MainExcept ==
    /\ store' = write_failed(store, path_failed(num, "main"))
    /\ status_parts' = Append(status_parts, <<"main", "FAIL">>)
    /\ stats' = [stats EXCEPT !.failed = @ + 1]
    /\ pc' = "return"

\* mutant: a record created exactly at the cutoff is kept
ExcludedAfterCutoff(created_at) == StrGT(created_at, CUTOFF_DATE)

\* line 273
Excluded(created_at) == StrGE(created_at, CUTOFF_DATE)

\* mutant: a not-found record goes on to its other components
MainAbsentGoesOn ==
    /\ store' = write_text(store, path_404(num))
    /\ stats' = [stats EXCEPT !.skip_404 = 1]
    /\ pc' = "gate"
    /\ UNCHANGED status_parts

\* lines 266-270
MainAbsent ==
    /\ store' = write_text(store, path_404(num))
    /\ stats' = [stats EXCEPT !.skip_404 = 1]
    /\ pc' = "return"
    /\ UNCHANGED status_parts

\* lines 266-282: fetch has returned data
MainFetched ==
    /\ pc = "main_fetch"
    /\ fstate = "returned"
    /\ IF ret.t = "none"
       THEN MainAbsent
       ELSE IF ret.t # "dict"
       THEN MainExcept                       \* data.get: AttributeError
       ELSE IF ret.created_at.k = "null"
       THEN MainExcept                       \* None >= str: TypeError
       ELSE LET created_at == IF ret.created_at.k = "missing" THEN <<>>
                              ELSE ret.created_at.s
            IN IF Excluded(created_at)
               THEN /\ store' = write_text(store, path_skip(num))
                    /\ stats' = [stats EXCEPT !.skip_date = 1]
                    /\ pc' = "return"
                    /\ UNCHANGED status_parts
               ELSE /\ store' = write_text(store, path_ok(num, "main"))
                    /\ pc' = "main_unlink"
                    /\ UNCHANGED <<stats, status_parts>>
    /\ UNCHANGED <<num, do, store0, first, recv0, reqs, extractVars>>
    /\ UNCHANGED <<fetchVars, histVars>>
    /\ UNCHANGED pagVars
    /\ UNCHANGED clientVars

\* lines 283-285
MainUnlink ==
    /\ pc = "main_unlink"
    /\ store' = unlink(store, path_failed(num, "main"))
    /\ status_parts' = Append(status_parts, <<"main", "OK">>)
    /\ stats' = [stats EXCEPT !.fetched = @ + 1]
    /\ pc' = "gate"
    /\ ClientIdle
    /\ UNCHANGED <<num, do, store0, first, recv0, reqs, extractVars>>
    /\ UNCHANGED clientVars

\* lines 287-292: fetch has raised
MainRaised ==
    /\ pc = "main_fetch"
    /\ fstate = "raised"
    /\ MainExcept
    /\ UNCHANGED <<num, do, store0, first, recv0, reqs, extractVars>>
    /\ UNCHANGED <<fetchVars, histVars>>
    /\ UNCHANGED pagVars
    /\ UNCHANGED clientVars

\* mutant: the other components are fetched without main
GateOpen ==
    /\ pc = "gate"
    /\ pc' = "comments"
    /\ UNCHANGED <<reqs>>
    /\ UNCHANGED procVars
    /\ UNCHANGED <<fetchVars, histVars>>
    /\ UNCHANGED pagVars
    /\ UNCHANGED clientVars

\* lines 295-298
Gate ==
    /\ pc = "gate"
    /\ IF (do["comments"] \/ do["timeline"] \/ do["xrefs"]) /\ ~do["main"]
          /\ ~exists(store, path_ok(num, "main"))
       THEN pc' = "return"
       ELSE pc' = "comments"
    /\ UNCHANGED <<reqs>>
    /\ UNCHANGED procVars
    /\ UNCHANGED <<fetchVars, histVars>>
    /\ UNCHANGED pagVars
    /\ UNCHANGED clientVars

\* mutant: after a failed component the function returns
AfterFailedStops(c) == "return"

\* where process_item goes when the block of c has failed (lines 316, 333, 351)
AfterFailed(c) ==
    CASE c = "comments" -> "timeline"
      [] c = "timeline" -> "xrefs"
      [] c = "xrefs" -> "return"

\* where process_item goes after the block of c
After(c) ==
    CASE c = "comments" -> "timeline"
      [] c = "timeline" -> "xrefs"
      [] c = "xrefs" -> "return"

FetchPc(c) ==
    CASE c = "comments" -> "comments_fetch"
      [] c = "timeline" -> "timeline_fetch"
      [] c = "xrefs" -> "xrefs_fetch"

UnlinkPc(c) ==
    CASE c = "comments" -> "comments_unlink"
      [] c = "timeline" -> "timeline_unlink"
      [] c = "xrefs" -> "xrefs_unlink"

\* lines 301-307, 318-324, 335-341: the block of c is entered
ListCheck(c) ==
    /\ pc = c
    /\ IF ~do[c]
       THEN /\ pc' = After(c)
            /\ UNCHANGED <<stats, status_parts>>
            /\ UNCHANGED <<fetchVars, histVars>>
            /\ UNCHANGED pagVars
       ELSE IF Skips(store, num, c)
       THEN /\ pc' = After(c)
            /\ status_parts' = Append(status_parts, <<c, "EXISTS">>)
            /\ stats' = [stats EXCEPT !.skip_exists = @ + 1]
            /\ UNCHANGED <<fetchVars, histVars>>
            /\ UNCHANGED pagVars
       ELSE /\ pc' = FetchPc(c)
            /\ PagBegin
            /\ UNCHANGED <<stats, status_parts>>
    /\ UNCHANGED <<store, num, do, store0, first, recv0, reqs, extractVars>>
    /\ UNCHANGED clientVars

\* lines 312-315, 329-332, 347-350: the handler of the block of c
ListExcept(c) ==
    /\ store' = write_failed(store, path_failed(num, c))
    /\ status_parts' = Append(status_parts, <<c, "FAIL">>)
    /\ stats' = [stats EXCEPT !.failed = @ + 1]
    /\ pc' = AfterFailed(c)
    /\ ClientIdle

\* lines 308, 325, 342-343: fetch_paginated has returned
ListFetched(c) ==
    /\ pc = FetchPc(c)
    /\ pstate = "returned"
    /\ IF c = "xrefs" /\ extract_xrefs(Timeline(all_items)).raised
       THEN ListExcept(c)
       ELSE /\ store' = write_text(store, path_ok(num, c))
            /\ pc' = UnlinkPc(c)
            /\ UNCHANGED <<stats, status_parts>>
            /\ UNCHANGED <<fetchVars, histVars>>
            /\ UNCHANGED pagVars
    /\ UNCHANGED <<num, do, store0, first, recv0, reqs, extractVars>>
    /\ UNCHANGED clientVars

\* mutant: a fetched component is not counted
ListUnlinkUncounted(c) ==
    /\ pc = UnlinkPc(c)
    /\ store' = unlink(store, path_failed(num, c))
    /\ status_parts' = Append(status_parts, <<c, "OK">>)
    /\ pc' = After(c)
    /\ ClientIdle
    /\ UNCHANGED <<stats, num, do, store0, first, recv0, reqs, extractVars>>
    /\ UNCHANGED clientVars

\* lines 309-311, 326-328, 344-346
ListUnlink(c) ==
    /\ pc = UnlinkPc(c)
    /\ store' = unlink(store, path_failed(num, c))
    /\ status_parts' = Append(status_parts, <<c, "OK">>)
    /\ stats' = [stats EXCEPT !.fetched = @ + 1]
    /\ pc' = After(c)
    /\ ClientIdle
    /\ UNCHANGED <<num, do, store0, first, recv0, reqs, extractVars>>
    /\ UNCHANGED clientVars

\* lines 312-315, 329-332, 347-350: fetch_paginated has raised, by itself or
\* because fetch did
ListRaised(c) ==
    /\ pc = FetchPc(c)
    /\ \/ pstate = "raised"
       \/ pstate = "running" /\ fstate = "raised"
    /\ ListExcept(c)
    /\ UNCHANGED <<num, do, store0, first, recv0, reqs, extractVars>>
    /\ UNCHANGED clientVars

\* lines 252, 255, 270, 277, 292, 298, 352-355: process_item returns its stats
Return ==
    /\ pc = "return"
    /\ pc' = "done"
    /\ UNCHANGED <<reqs>>
    /\ UNCHANGED procVars
    /\ UNCHANGED <<fetchVars, histVars>>
    /\ UNCHANGED pagVars
    /\ UNCHANGED clientVars

CommentsCheck == ListCheck("comments")
CommentsFetched == ListFetched("comments")
CommentsUnlink == ListUnlink("comments")
CommentsRaised == ListRaised("comments")
TimelineCheck == ListCheck("timeline")
TimelineFetched == ListFetched("timeline")
TimelineUnlink == ListUnlink("timeline")
TimelineRaised == ListRaised("timeline")
XrefsCheck == ListCheck("xrefs")
XrefsFetched == ListFetched("xrefs")
XrefsUnlink == ListUnlink("xrefs")
XrefsRaised == ListRaised("xrefs")

(***************************************************************************)
(* The process run over a range of IDs: main() calls process_item for one  *)
(* ID after the other; a later run may use other component flags.          *)
(***************************************************************************)
Init ==
    /\ store = {}
    /\ pc = "idle"
    /\ num = 0
    /\ do = [c \in Components |-> FALSE]
    /\ stats = ZeroStats
    /\ status_parts = <<>>
    /\ attempt = 0 /\ fstate = "idle" /\ ret = PyNone
    /\ page = 0 /\ all_items = <<>> /\ pstate = "idle"
    /\ rate_remaining = NoInt /\ rate_reset = NoInt /\ now = 0
    /\ store0 = {}
    /\ reqs = {}
    /\ first = "none"
    /\ nreq = 0 /\ ntrans = 0 /\ nlimit = 0 /\ last = NoResponse
    /\ backoff = 0 /\ backoffs = 0 /\ since = <<>> /\ served = <<>>
    /\ recv0 = {}
    /\ timeline = <<>> /\ xrefs = <<>> /\ event = 0

\* the API's answer to the request the process is about to send
Request(hdrs, jitters, times) ==
    \E resp \in Responses(Component(pc), page, hdrs) :
      \E j \in (IF Outcome(resp) = "transient" THEN jitters ELSE {0}) :
        \E t \in (IF ReadsClock(resp) THEN {u \in times : u >= now} ELSE {now}) :
            /\ FetchAttempt(resp, j, t)
            /\ reqs' = reqs \cup {Component(pc)}
            /\ UNCHANGED histVars

\* the same, with the history of the fetch recorded
ObservedRequest(hdrs, jitters, times) ==
    \E resp \in Responses(Component(pc), page, hdrs) :
      \E j \in (IF Outcome(resp) = "transient" THEN jitters ELSE {0}) :
        \E t \in (IF ReadsClock(resp) THEN {u \in times : u >= now} ELSE {now}) :
            /\ FetchAttempt(resp, j, t)
            /\ reqs' = reqs \cup {Component(pc)}
            /\ Observe(resp, j, t)

Next ==
    \/ \E n \in Ids, d \in Flags, fresh \in BOOLEAN : Start(n, d, fresh)
    \/ MainCheck
    \/ Request({NoHeaders}, {0}, Times)
    \/ MainFetched
    \/ MainUnlink
    \/ MainRaised
    \/ Gate
    \/ CommentsCheck
    \/ CommentsFetched
    \/ CommentsUnlink
    \/ CommentsRaised
    \/ TimelineCheck
    \/ TimelineFetched
    \/ TimelineUnlink
    \/ TimelineRaised
    \/ XrefsCheck
    \/ XrefsFetched
    \/ XrefsUnlink
    \/ XrefsRaised
    \/ Return
    \/ PageDone

Spec == Init /\ [][Next]_vars

(***************************************************************************)
(* The process run with --discover: one fetch of the listing, then exit.   *)
(***************************************************************************)
\* line 216: discover_latest calls client.fetch
Discover ==
    /\ pc = "idle"
    /\ pc' = "discover_fetch"
    /\ FetchBegin
    /\ UNCHANGED <<reqs>>
    /\ UNCHANGED procVars
    /\ UNCHANGED pagVars
    /\ UNCHANGED clientVars

\* lines 217-221: the number is printed, or the exception ends the process
DiscoverFetched ==
    /\ pc = "discover_fetch"
    /\ fstate = "returned"
    /\ IF ret.t = "list" /\ Len(ret.items) > 0 THEN pc' = "printed" ELSE pc' = "crashed"
    /\ UNCHANGED <<reqs>>
    /\ UNCHANGED procVars
    /\ UNCHANGED <<fetchVars, histVars>>
    /\ UNCHANGED pagVars
    /\ UNCHANGED clientVars

\* line 138 propagates through discover_latest and main
DiscoverRaised ==
    /\ pc = "discover_fetch"
    /\ fstate = "raised"
    /\ pc' = "crashed"
    /\ UNCHANGED <<reqs>>
    /\ UNCHANGED procVars
    /\ UNCHANGED <<fetchVars, histVars>>
    /\ UNCHANGED pagVars
    /\ UNCHANGED clientVars

NextDiscover ==
    \/ Discover
    \/ ObservedRequest(Headers, Jitters, Times)
    \/ DiscoverFetched
    \/ DiscoverRaised

SpecDiscover == Init /\ [][NextDiscover]_vars

(***************************************************************************)
(* extract_xrefs called on its own, on a timeline of at most MaxEvents     *)
(* events of the shapes the API documents: an item that is no object, a    *)
(* "cross-referenced" event with or without the number of source.issue, a  *)
(* "referenced" event with or without commit_id, an event of another type. *)
(* (An event whose "source" is a value without get() is served to          *)
(* process_item only, where the raise is caught by the xrefs block.)       *)
(***************************************************************************)
MaxEvents == 3

Events ==
    {Event(FALSE, "", 0, 0, FALSE), Event(TRUE, "labeled", 0, 0, FALSE)}
      \cup {Event(TRUE, "cross-referenced", n, 0, FALSE) : n \in {0, 12, 13}}
      \cup {Event(TRUE, "referenced", 0, c, FALSE) : c \in {0, 9}}

EventLists == UNION {[1..n -> Events] : n \in 0..MaxEvents}

InitExtract ==
    /\ store = {}
    /\ pc = "extract"
    /\ num = 0
    /\ do = [c \in Components |-> FALSE]
    /\ stats = ZeroStats
    /\ status_parts = <<>>
    /\ attempt = 0 /\ fstate = "idle" /\ ret = PyNone
    /\ page = 0 /\ all_items = <<>> /\ pstate = "idle"
    /\ rate_remaining = NoInt /\ rate_reset = NoInt /\ now = 0
    /\ store0 = {}
    /\ reqs = {}
    /\ first = "none"
    /\ nreq = 0 /\ ntrans = 0 /\ nlimit = 0 /\ last = NoResponse
    /\ backoff = 0 /\ backoffs = 0 /\ since = <<>> /\ served = <<>>
    /\ recv0 = {}
    /\ timeline \in EventLists
    /\ xrefs = <<>>
    /\ event = 1

\* lines 180-208: one pass of the loop, for the event at position event
ExtractEvent ==
    /\ pc = "extract"
    /\ event <= Len(timeline)
    /\ LET e == timeline[event] IN
       IF EventRaises(e)
       THEN /\ pc' = "extract_raised"
            /\ UNCHANGED <<xrefs, event>>
       ELSE /\ xrefs' = IF Emits(e) THEN Append(xrefs, Xref(e)) ELSE xrefs
            /\ event' = event + 1
            /\ UNCHANGED pc
    /\ UNCHANGED <<timeline, store, num, do, stats, status_parts, store0, first, recv0, reqs>>
    /\ UNCHANGED <<fetchVars, histVars>>
    /\ UNCHANGED pagVars
    /\ UNCHANGED clientVars

\* line 210
ExtractReturn ==
    /\ pc = "extract"
    /\ event > Len(timeline)
    /\ pc' = "extracted"
    /\ UNCHANGED <<reqs>>
    /\ UNCHANGED procVars
    /\ UNCHANGED <<fetchVars, histVars>>
    /\ UNCHANGED pagVars
    /\ UNCHANGED clientVars

NextExtract ==
    \/ ExtractEvent
    \/ ExtractReturn

SpecExtract == InitExtract /\ [][NextExtract]_vars

(***************************************************************************)
(* The process terminated inside process_item and run again.  Termination  *)
(* can come between any two steps, the last marker operation and the       *)
(* return included; the files written so far stay, the process and its     *)
(* client are gone, and the next process starts with a new client.  It is  *)
(* a resumed run when it calls process_item for the same ID and flags; it  *)
(* can be terminated and resumed in turn.                                  *)
(***************************************************************************)
RunningPcs ==
    {"main", "main_fetch", "main_unlink", "gate",
     "comments", "comments_fetch", "comments_unlink",
     "timeline", "timeline_fetch", "timeline_unlink",
     "xrefs", "xrefs_fetch", "xrefs_unlink", "return"}

\* components whose data the running process_item has received from the API:
\* those it has written, the one fetch or fetch_paginated has just returned
Received ==
    {c \in Components : \E i \in 1..Len(status_parts) : status_parts[i] = <<c, "OK">>}
      \cup {c \in ListComponents : pc = UnlinkPc(c) \/ (pc = FetchPc(c) /\ pstate = "returned")}
      \cup (IF pc = "main_unlink" \/ (pc = "main_fetch" /\ fstate = "returned")
            THEN {"main"} ELSE {})

Terminate ==
    /\ pc \in RunningPcs
    /\ pc' = "killed"
    /\ recv0' = Received
    /\ stats' = ZeroStats
    /\ status_parts' = <<>>
    /\ reqs' = {}
    /\ first' = "none"
    /\ ClientIdle
    /\ rate_remaining' = NoInt
    /\ rate_reset' = NoInt
    /\ store0' = store
    /\ UNCHANGED <<store, num, do, now>>
    /\ UNCHANGED extractVars

NextResume ==
    \/ Next
    \/ Terminate

SpecResume == Init /\ [][NextResume]_vars

(***************************************************************************)
(* Properties of process_item.                                             *)
(***************************************************************************)
AllFlags == [c \in Components |-> TRUE]

\* a process_item call is running or has returned
Entered == pc \notin {"idle", "discover_fetch", "printed", "crashed"}

\* the <<component, status>> pair is in status_parts
Said(c, status) == \E i \in 1..Len(status_parts) : status_parts[i] = <<c, status>>

\* C1: when the not-found or the excluded-by-date marker of the ID exists on
\* entry, process_item returns at once (it is at its return statement or has
\* returned): no request was sent, no marker was written or deleted, and the
\* stats hold skip_404 = 1 (not-found marker) or skip_date = 1 (excluded
\* marker) and nothing else.
C1_TerminalShortCircuit ==
    (Entered /\ (exists(store0, path_404(num)) \/ exists(store0, path_skip(num))))
        => /\ pc \in {"return", "done"}
           /\ reqs = {}
           /\ store = store0
           /\ status_parts = <<>>
           /\ stats = IF exists(store0, path_404(num))
                      THEN [ZeroStats EXCEPT !.skip_404 = 1]
                      ELSE [ZeroStats EXCEPT !.skip_date = 1]

C1_Witness ==
    /\ pc = "done"
    /\ exists(store0, path_skip(num))
    /\ do = AllFlags
    /\ stats.skip_date = 1

\* C2 as stated: a second call with the arguments of the call before it sends
\* no request and counts every requested component as skip_exists.
C2_SecondCallAllExists ==
    (pc = "done" /\ first # "none")
        => /\ reqs = {}
           /\ stats = [ZeroStats EXCEPT !.skip_exists = Requested(do)]

\* C2 amended: a second call with the arguments of the call before it sends no
\* request and changes no marker when the first call ended with every
\* requested component fetched or already there, and then counts every
\* requested component as skip_exists; it also sends no request when the first
\* call ended with a terminal marker, and then returns skip_404 or skip_date.
C2_Idempotence ==
    /\ (Entered /\ first = "clean")
          => /\ reqs = {}
             /\ store = store0
             /\ pc = "done" =>
                  /\ stats = [ZeroStats EXCEPT !.skip_exists = Requested(do)]
                  /\ \A c \in Components : do[c] => Said(c, "EXISTS")
    /\ (Entered /\ first = "terminal")
          => /\ reqs = {}
             /\ store = store0
             /\ pc \in {"return", "done"}
             /\ stats.skip_404 + stats.skip_date = 1
             /\ stats.skip_exists = 0

C2_Witness ==
    /\ pc = "done"
    /\ first = "clean"
    /\ do = AllFlags
    /\ stats.skip_exists = 4

\* C3: a component whose success marker exists on entry is never fetched in
\* this call and its marker stays; when process_item has returned, every
\* requested component of that kind is in status_parts as EXISTS, and
\* skip_exists counts exactly these components.
C3_ExistingComponentSkipped ==
    (Entered /\ Terminal(store0, num) = "none")
        => /\ \A c \in Components :
                exists(store0, path_ok(num, c))
                    => /\ c \notin reqs
                       /\ exists(store, path_ok(num, c))
                       /\ (pc = "done" /\ do[c]) => Said(c, "EXISTS")
           /\ pc = "done" =>
                stats.skip_exists =
                    Cardinality({c \in Components : do[c] /\ exists(store0, path_ok(num, c))})

C3_Witness ==
    /\ pc = "done"
    /\ do = AllFlags
    /\ exists(store0, path_ok(num, "timeline"))
    /\ ~exists(store0, path_ok(num, "xrefs"))
    /\ "xrefs" \in reqs
    /\ "timeline" \notin reqs
    /\ Said("timeline", "EXISTS")

\* C4: when main has been requested from the API in this call and has not
\* been written, no request was sent for comments, timeline or xrefs, and
\* when process_item has returned the only marker written is the not-found
\* marker, the excluded-by-date marker or the main failure marker, according
\* to how the fetch ended.
C4_MainStops ==
    (Entered /\ "main" \in reqs /\ ~exists(store, path_ok(num, "main")))
        => /\ reqs = {"main"}
           /\ pc \in {"main_fetch", "return", "done"}
           /\ pc \in {"return", "done"} =>
                \/ /\ stats = [ZeroStats EXCEPT !.skip_404 = 1]
                   /\ store = store0 \cup {path_404(num)}
                \/ /\ stats = [ZeroStats EXCEPT !.skip_date = 1]
                   /\ store = store0 \cup {path_skip(num)}
                \/ /\ stats = [ZeroStats EXCEPT !.failed = 1]
                   /\ store = store0 \cup {path_failed(num, "main")}

C4_Witness ==
    /\ pc = "done"
    /\ do = AllFlags
    /\ "main" \in reqs
    /\ stats.failed = 1
    /\ ret.t = "dict"
    /\ store = {path_failed(num, "main")}

\* the order of the blocks of process_item
Rank(c) ==
    CASE c = "main" -> 0 [] c = "comments" -> 1 [] c = "timeline" -> 2 [] c = "xrefs" -> 3

\* C5: when process_item has returned and the fetch of comments, timeline or
\* xrefs failed in it, every later requested component among them whose
\* success marker was missing has been requested from the API.
C5_ComponentIndependence ==
    pc = "done"
        => \A c \in ListComponents, c2 \in ListComponents :
              (Rank(c) < Rank(c2) /\ Said(c, "FAIL") /\ do[c2]
                  /\ ~exists(store0, path_ok(num, c2)))
                  => /\ c2 \in reqs
                     /\ Said(c2, "OK") \/ Said(c2, "FAIL")

C5_Witness ==
    /\ pc = "done"
    /\ Said("comments", "FAIL")
    /\ Said("timeline", "OK")
    /\ "timeline" \in reqs
    /\ Said("xrefs", "FAIL")

\* the cutoff as a time
CutoffTime == <<2016, 1, 1, 0, 0, 0>>

\* C6: right after main has been fetched with a creation time t, the record
\* is excluded (excluded-by-date marker written, no main marker, skip_date = 1,
\* process_item at its return or returned) exactly when t is at or after 2016-01-01T00:00:00Z;
\* otherwise the main marker is written and the record is not excluded.
C6_CutoffComparison ==
    \A t \in Timestamps :
        (pc \in {"main_unlink", "return", "done"} /\ ret.t = "dict"
            /\ ret.created_at = Str(ApiFormat(t)))
            => IF Instant(t) >= Instant(CutoffTime)
               THEN /\ pc \in {"return", "done"}
                    /\ exists(store, path_skip(num))
                    /\ ~exists(store, path_ok(num, "main"))
                    /\ stats = [ZeroStats EXCEPT !.skip_date = 1]
               ELSE /\ pc = "main_unlink"
                    /\ exists(store, path_ok(num, "main"))
                    /\ ~exists(store, path_skip(num))
                    /\ stats.skip_date = 0

C6_Witness ==
    /\ pc = "done"
    /\ ret.t = "dict"
    /\ ret.created_at = Str(CUTOFF_DATE)
    /\ exists(store, path_skip(num))
    /\ stats.skip_date = 1

\* a record created one second before the cutoff has its main marker
C6_WitnessBefore ==
    /\ pc = "main_unlink"
    /\ ret.created_at = Str(ApiFormat(<<2015, 12, 31, 23, 59, 59>>))
    /\ exists(store, path_ok(num, "main"))

(***************************************************************************)
(* Properties of the client.                                               *)
(***************************************************************************)
\* every answer to the running fetch so far was a transient error
AllTransient == ntrans = nreq

\* C7 as stated: in a fetch whose answers are all transient errors, every
\* request is sent after a wait.
C7_EachAttemptPrecededByWait ==
    [][(nreq' = nreq + 1 /\ ntrans' = nreq') => since # <<>>]_vars

\* C7 amended: in a fetch whose answers are all transient errors, every
\* attempt is followed by one backoff wait of 2^attempt seconds within +/-25%,
\* fetch raises after exactly MAX_RETRIES requests and as many waits, and every
\* wait is longer than the wait before it.
C7_RetryExhaustion ==
    /\ [](  (pc = "discover_fetch" /\ AllTransient)
               => /\ backoffs = nreq
                  /\ nreq <= MAX_RETRIES
                  /\ (fstate = "raised") <=> (nreq = MAX_RETRIES)
                  /\ fstate \in {"running", "raised"}
                  /\ nreq >= 1 =>
                       /\ since # <<>>
                       /\ since[Len(since)] = <<"backoff", backoff>>
                       /\ JITTER_DEN * backoff
                            >= (JITTER_DEN - 1) * Pow(BASE_BACKOFF, nreq - 1) * Tick
                       /\ JITTER_DEN * backoff
                            < (JITTER_DEN + 1) * Pow(BASE_BACKOFF, nreq - 1) * Tick )
    /\ [][(backoffs' = backoffs + 1 /\ backoffs >= 1) => backoff' > backoff]_vars

C7_Witness ==
    /\ pc = "discover_fetch"
    /\ fstate = "raised"
    /\ ntrans = MAX_RETRIES
    /\ nreq = MAX_RETRIES
    /\ backoffs = MAX_RETRIES
    /\ last.kind = "http" /\ last.status = 200

IsLimit(resp) == resp.kind = "http" /\ resp.status \in {403, 429}

\* C8: in one fetch the answers that are rate-limit responses and those that are
\* transient errors are never more than MAX_RETRIES together; fetch raises
\* exactly when they are MAX_RETRIES, after MAX_RETRIES requests; and after a
\* rate-limit response the only sleep is the post-limit wait, of
\* rate_reset - now + 10 seconds when that is positive, never a backoff.
C8_RateLimitBudget ==
    pc = "discover_fetch"
        => /\ nlimit + ntrans <= MAX_RETRIES
           /\ (fstate = "raised") <=> (nlimit + ntrans = MAX_RETRIES)
           /\ fstate = "raised" => nreq = MAX_RETRIES
           /\ IsLimit(last) =>
                /\ Len(since) <= 1
                /\ \A i \in 1..Len(since) : since[i][1] = "limit"
                /\ (rate_reset.known /\ rate_reset.v - now + LIMIT_MARGIN > 0
                      /\ rate_reset.v # 0)
                      => since = <<(<<"limit", (rate_reset.v - now + LIMIT_MARGIN) * Tick>>)>>

C8_Witness ==
    /\ pc = "discover_fetch"
    /\ fstate = "raised"
    /\ nlimit = MAX_RETRIES
    /\ nreq = MAX_RETRIES
    /\ since # <<>>

\* C9: a running fetch has sent fewer than MAX_RETRIES requests, all answered
\* by a transient error or a rate-limit response; a fetch that has returned has
\* sent 1 to MAX_RETRIES requests and returned at the first answer that is a
\* 200 with a body that parses (its value) or a 404 (None, with no sleep); a
\* fetch that has raised has sent MAX_RETRIES requests, none answered that way.
C9_FetchOutcomes ==
    pc = "discover_fetch"
        => /\ fstate \in {"running", "returned", "raised"}
           /\ fstate = "running" =>
                /\ nreq = attempt
                /\ nreq < MAX_RETRIES
                /\ nreq = ntrans + nlimit
           /\ fstate = "returned" =>
                /\ nreq >= 1 /\ nreq <= MAX_RETRIES
                /\ nreq = ntrans + nlimit + 1
                /\ \/ /\ last.kind = "http" /\ last.status = 200 /\ last.ok
                      /\ ret = last.json
                   \/ /\ last.kind = "http" /\ last.status = 404
                      /\ ret = PyNone
                      /\ since = <<>>
           /\ fstate = "raised" =>
                /\ nreq = MAX_RETRIES
                /\ nreq = ntrans + nlimit
                /\ ~(last.kind = "http" /\ last.status = 404)
                /\ ~(last.kind = "http" /\ last.status = 200 /\ last.ok)

C9_Witness ==
    /\ pc = "discover_fetch"
    /\ fstate = "returned"
    /\ nreq = MAX_RETRIES
    /\ ntrans = 2 /\ nlimit = 2
    /\ last.status = 404

RECURSIVE Flatten(_)
\* the items of the pages, page after page (None has no items)
Flatten(pages) ==
    IF pages = <<>> THEN <<>>
    ELSE (IF Head(pages).t = "list" THEN Head(pages).items ELSE <<>>) \o Flatten(Tail(pages))

IsFullPage(p) == p.t = "list" /\ Len(p.items) = PER_PAGE
IsEndPage(p) == p.t = "none" \/ (p.t = "list" /\ Len(p.items) < PER_PAGE)

\* C10: while fetch_paginated runs it is at page number (pages received) + 1
\* and all pages received were full lists; when it has returned after k pages,
\* pages 1..k-1 were lists of 100, page k was None, empty or shorter than 100,
\* and all_items is the items of pages 1..k in page order and API order, i.e.
\* items 1, 2, 3, .. of the remote list.
C10_Pagination ==
    (pc \in PagPcs /\ pstate \in {"running", "returned"})
        => LET k == Len(served) IN
           /\ \A i \in 1..Len(all_items) :
                 all_items[i] = i \/ all_items[i] = 0 - i
           /\ all_items = Flatten(served)
           /\ pstate = "running" =>
                /\ page = k + 1
                /\ \A i \in 1..k : IsFullPage(served[i])
           /\ pstate = "returned" =>
                /\ k >= 1
                /\ page = k
                /\ \A i \in 1..(k - 1) : IsFullPage(served[i])
                /\ IsEndPage(served[k])
                /\ Len(all_items) = (k - 1) * PER_PAGE
                      + (IF served[k].t = "list" THEN Len(served[k].items) ELSE 0)

C10_Witness ==
    /\ pc = "comments_fetch"
    /\ pstate = "returned"
    /\ page = 3
    /\ Len(served) = 3
    /\ Len(all_items) = 2 * PER_PAGE + ShortLen
    /\ all_items[2 * PER_PAGE + ShortLen] = 2 * PER_PAGE + ShortLen

\* 100 items then an empty page: 100 items in two page requests
C10_WitnessEmptyLast ==
    /\ pc = "comments_fetch"
    /\ pstate = "returned"
    /\ page = 2
    /\ Len(served) = 2
    /\ served[2].t = "list"
    /\ Len(all_items) = PER_PAGE

(***************************************************************************)
(* Properties of the marker files.                                         *)
(***************************************************************************)
\* no process_item call is running
Completed == pc \in {"idle", "done"}

\* the component has both its success marker and its failure marker
BothMarkers(st, n, c) == exists(st, path_ok(n, c)) /\ exists(st, path_failed(n, c))

\* C11: whenever no process_item call is running (before the first call and
\* after every completed call, the store having been empty at the start), no
\* component of the ID has both its success marker and its failure marker.
C11_SuccessClearsFailure ==
    Completed => \A n \in Ids, c \in Components : ~BothMarkers(store, n, c)

\* a call has fetched comments that had failed in an earlier call
C11_Witness ==
    /\ pc = "done"
    /\ exists(store0, path_failed(num, "comments"))
    /\ Said("comments", "OK")
    /\ exists(store, path_ok(num, "comments"))
    /\ ~exists(store, path_failed(num, "comments"))

(***************************************************************************)
(* Properties of the rate-limit tracker.                                   *)
(***************************************************************************)
RECURSIVE SleptFor(_, _)
\* ticks slept in the sleeps s of the kinds given
SleptFor(s, kinds) ==
    IF s = <<>> THEN 0
    ELSE (IF Head(s)[1] \in kinds THEN Head(s)[2] ELSE 0) + SleptFor(Tail(s), kinds)

\* ticks for which the quota stays low, at the earliest moment the next request
\* can be sent when no rate-limit wait is made before it: rate_reset + 5 s
\* minus the last reading of the clock and the other sleeps made since
LowFor == (rate_reset.v - now + CHECK_MARGIN) * Tick - SleptFor(since, {"limit", "backoff"})

\* the tracker says the quota is low and not yet reset (a reset time of 0,
\* the epoch, lies before every reading of a real clock)
QuotaLow ==
    /\ rate_remaining.known /\ rate_remaining.v < RATE_LIMIT_BUFFER
    /\ rate_reset.known /\ rate_reset.v # 0
    /\ LowFor > 0

\* C12: every request sent while the tracker holds a known remaining quota
\* below RATE_LIMIT_BUFFER and rate_reset - now + 5 is positive comes after a
\* rate-limit wait of rate_reset - now + 5 seconds made since the previous
\* response.
C12_BackpressureBeforeRequest ==
    [][(pc = "discover_fetch" /\ nreq' = nreq + 1 /\ QuotaLow)
          => \E i \in 1..Len(since) :
                since[i] = <<"check", (rate_reset.v - now + CHECK_MARGIN) * Tick>>]_vars

(***************************************************************************)
(* Properties of the process terminated and run again.                     *)
(***************************************************************************)
\* C13: in a process_item run for the ID and flags of a process_item that was
\* terminated, no request is sent for a component whose success marker is
\* there, and of the components whose data the terminated run had received
\* at most one is requested again.
C13_Resumability ==
    (Entered /\ first = "killed")
        => /\ \A c \in Components : exists(store0, path_ok(num, c)) => c \notin reqs
           /\ Cardinality(reqs \cap recv0) <= 1

\* terminated with the comments received and not yet written: main is not
\* requested again, comments are
C13_Witness ==
    /\ pc = "done"
    /\ first = "killed"
    /\ do = AllFlags
    /\ recv0 = {"main", "comments"}
    /\ exists(store0, path_ok(num, "main"))
    /\ ~exists(store0, path_ok(num, "comments"))
    /\ "comments" \in reqs
    /\ "main" \notin reqs

(***************************************************************************)
(* Properties of the failure handling of process_item.                     *)
(***************************************************************************)
\* the fetch process_item made for component c has raised: fetch has used up
\* its attempts, or fetch_paginated got a page that is no list
Raising(c) ==
    IF c = "main" THEN pc = "main_fetch" /\ fstate = "raised"
    ELSE /\ pc = FetchPc(c)
         /\ pstate = "raised" \/ (pstate = "running" /\ fstate = "raised")

\* C14: when a fetch made by process_item raises, the next step of
\* process_item is its handler, not an exit by exception: it writes the
\* failure marker of that component and nothing else, adds 1 to failed and to
\* no other counter, leaves the component without success marker and goes on
\* inside process_item (to the next block, or to its return); and when
\* process_item has returned, every component that failed has its failure
\* marker and no success marker.
C14_FailuresStayPerComponent ==
    /\ [][\A c \in Components :
            Raising(c)
              => /\ store' = store \cup {path_failed(num, c)}
                 /\ stats' = [stats EXCEPT !.failed = @ + 1]
                 /\ ~exists(store', path_ok(num, c))
                 /\ status_parts' = Append(status_parts, <<c, "FAIL">>)
                 /\ pc' \in (RunningPcs \cup {"done"}) \ {pc}]_vars
    /\ [](pc = "done" =>
            \A c \in Components :
                Said(c, "FAIL") => /\ exists(store, path_failed(num, c))
                                   /\ ~exists(store, path_ok(num, c))
                                   /\ stats.failed >= 1)

\* comments, timeline and xrefs have all failed and process_item has returned
C14_Witness ==
    /\ pc = "done"
    /\ do = AllFlags
    /\ stats.failed = 3
    /\ stats.skip_exists = 1
    /\ \A c \in ListComponents : Said(c, "FAIL") /\ exists(store, path_failed(num, c))

\* C15: a process_item entered without main among its flags but with
\* comments, timeline or xrefs, when the ID has no terminal marker and no main
\* success marker, sends no request, leaves the store as it was and, once it
\* has returned, has all five counters at 0 (and nothing in status_parts).
C15_NoMainNoWork ==
    (Entered /\ ~do["main"]
        /\ (do["comments"] \/ do["timeline"] \/ do["xrefs"])
        /\ Terminal(store0, num) = "none"
        /\ ~exists(store0, path_ok(num, "main")))
        => /\ reqs = {}
           /\ store = store0
           /\ stats = ZeroStats
           /\ status_parts = <<>>
           /\ pc \in {"main", "gate", "return", "done"}

\* returned at the gate although an earlier call had left failure markers
C15_Witness ==
    /\ pc = "done"
    /\ ~do["main"] /\ do["comments"] /\ do["timeline"] /\ do["xrefs"]
    /\ store0 = {path_failed(num, "main")}
    /\ store = store0
    /\ stats = ZeroStats
    /\ reqs = {}

XrefsPcs == {"xrefs", "xrefs_fetch", "xrefs_unlink"}

TimelineMarkers(st, n) == st \cap {path_ok(n, "timeline"), path_failed(n, "timeline")}

\* C16: when process_item reaches the xrefs block with xrefs among its flags
\* and no xrefs success marker, its next step starts a paginated fetch of the
\* timeline endpoint at page 1 with an empty list, whether or not the
\* timeline marker exists and whether or not timeline was requested earlier
\* in the call; no step of the xrefs block writes or deletes a timeline
\* marker; and the xrefs marker is written from the pages this fetch has
\* received from the API, not from anything in the store.
C16_XrefsFetchesTimelineAfresh ==
    /\ [][(pc = "xrefs" /\ do["xrefs"] /\ ~exists(store, path_ok(num, "xrefs")))
            => /\ pc' = "xrefs_fetch"
               /\ Endpoint(Component(pc')) = Endpoint("timeline")
               /\ pstate' = "running" /\ fstate' = "running"
               /\ page' = 1
               /\ all_items' = <<>>
               /\ store' = store]_vars
    /\ [][(pc \in XrefsPcs)
            => TimelineMarkers(store', num) = TimelineMarkers(store, num)]_vars
    /\ [](pc = "xrefs_unlink"
            => /\ "xrefs" \in reqs
               /\ pstate = "returned"
               /\ Len(served) >= 1
               /\ all_items = Flatten(served)
               /\ ~extract_xrefs(Timeline(all_items)).raised)

\* xrefs written after a timeline fetched and written in the same call
C16_Witness ==
    /\ pc = "xrefs_unlink"
    /\ "timeline" \in reqs
    /\ Said("timeline", "OK")
    /\ exists(store, path_ok(num, "timeline"))
    /\ Len(all_items) = PER_PAGE + ShortLen

\* xrefs written when the timeline marker was there on entry
C16_WitnessMarker ==
    /\ pc = "xrefs_unlink"
    /\ exists(store0, path_ok(num, "timeline"))
    /\ "timeline" \notin reqs
    /\ "xrefs" \in reqs

(***************************************************************************)
(* Properties of extract_xrefs.                                            *)
(***************************************************************************)
\* the event is a "cross-referenced" event with a source issue number, or a
\* "referenced" event with a commit identifier
IsReference(e) ==
    /\ e.isdict
    /\ \/ e.event = "cross-referenced" /\ e.number # 0
       \/ e.event = "referenced" /\ e.commit # 0

\* positions of the references among the first n events of tl
References(tl, n) == {i \in 1..n : IsReference(tl[i])}

\* the position in tl of reference number k
ReferenceAt(tl, k) ==
    CHOOSE i \in References(tl, Len(tl)) : Cardinality(References(tl, i)) = k

\* C17: while the loop of extract_xrefs runs, xrefs holds one record for each
\* reference among the events passed, and when extract_xrefs has returned,
\* the result has exactly one record for each cross-referenced event with a
\* source issue number and each referenced event with a commit identifier,
\* record k being that of the k-th such event of the input (its type and its
\* number or commit identifier), so that the result is no longer than the input.
C17_CrossReferenceExtraction ==
    /\ pc = "extract" =>
          /\ event >= 1 /\ event <= Len(timeline) + 1
          /\ Len(xrefs) = Cardinality(References(timeline, event - 1))
    /\ pc \in {"extract", "extracted"} =>
          /\ Len(xrefs) <= Len(timeline)
          /\ \A k \in 1..Len(xrefs) :
                LET e == timeline[ReferenceAt(timeline, k)] IN
                /\ xrefs[k].event = e.event
                /\ xrefs[k].ref = IF e.event = "referenced" THEN e.commit ELSE e.number
    /\ pc = "extracted" =>
          /\ Len(xrefs) = Cardinality(References(timeline, Len(timeline)))
          /\ xrefs = extract_xrefs(timeline).xrefs
          /\ ~extract_xrefs(timeline).raised
    /\ pc # "extract_raised"

\* a cross-referenced event with its number, one without, a referenced event
\* without commit identifier: one record
C17_Witness ==
    /\ pc = "extracted"
    /\ timeline = <<Event(TRUE, "cross-referenced", 12, 0, FALSE),
                    Event(TRUE, "cross-referenced", 0, 0, FALSE),
                    Event(TRUE, "referenced", 0, 0, FALSE)>>
    /\ xrefs = <<[event |-> "cross-referenced", ref |-> 12]>>

\* the records come in the order of the events
C17_WitnessOrder ==
    /\ pc = "extracted"
    /\ timeline = <<Event(TRUE, "referenced", 0, 9, FALSE),
                    Event(TRUE, "labeled", 0, 0, FALSE),
                    Event(TRUE, "cross-referenced", 13, 0, FALSE)>>
    /\ xrefs = <<[event |-> "referenced", ref |-> 9],
                 [event |-> "cross-referenced", ref |-> 13]>>

\* C18: in every state of a run of process_item calls that starts from an
\* empty store, every ID (a) does not have both the not-found and the
\* excluded-by-date marker, (b) has no success marker when it has one of these
\* two, and (c) has the main success marker when it has the success marker of
\* comments, timeline or xrefs.
C18_MarkerShape ==
    \A n \in Ids :
        /\ ~(exists(store, path_404(n)) /\ exists(store, path_skip(n)))
        /\ Terminal(store, n) # "none"
              => \A c \in Components : ~exists(store, path_ok(n, c))
        /\ \A c \in ListComponents :
              exists(store, path_ok(n, c)) => exists(store, path_ok(n, "main"))

\* a record found excluded by date in a call made after its main had failed
C18_Witness ==
    /\ pc = "done"
    /\ "main" \in reqs
    /\ exists(store0, path_failed(num, "main"))
    /\ exists(store, path_skip(num))
    /\ stats.skip_date = 1

\* all four success markers, xrefs written in a call without main
C18_WitnessAll ==
    /\ pc = "done"
    /\ ~do["main"]
    /\ Said("xrefs", "OK")
    /\ \A c \in Components : exists(store, path_ok(num, c))

\* components whose success marker the running call has created
Created == {c \in Components : exists(store, path_ok(num, c)) /\ ~exists(store0, path_ok(num, c))}

\* components whose failure marker the running call has written
WroteFailed == {c \in Components : Said(c, "FAIL")}

\* C19: when process_item has returned, skip_404 and skip_date are 0 or 1
\* and not both 1; if one of them is 1, fetched, skip_exists and failed are
\* 0; otherwise fetched + skip_exists + failed is at most the number of
\* components asked for, fetched is the number of success markers the call
\* has created and failed the number of failure markers it has written (each
\* of them in the store).
C19_CounterAccounting ==
    pc = "done"
        => /\ stats.skip_404 \in {0, 1}
           /\ stats.skip_date \in {0, 1}
           /\ stats.skip_404 + stats.skip_date <= 1
           /\ IF stats.skip_404 = 1 \/ stats.skip_date = 1
              THEN stats.fetched = 0 /\ stats.skip_exists = 0 /\ stats.failed = 0
              ELSE /\ stats.fetched + stats.skip_exists + stats.failed <= Requested(do)
                   /\ stats.fetched = Cardinality(Created)
                   /\ stats.failed = Cardinality(WroteFailed)
                   /\ \A c \in WroteFailed : exists(store, path_failed(num, c))
                   /\ stats.fetched >= 0 /\ stats.skip_exists >= 0 /\ stats.failed >= 0

\* one component of each kind: main was there, comments fetched, timeline
\* failed (its failure marker was there already), xrefs fetched
C19_Witness ==
    /\ pc = "done"
    /\ do = AllFlags
    /\ stats = [fetched |-> 2, skip_404 |-> 0, skip_date |-> 0, skip_exists |-> 1, failed |-> 1]
    /\ exists(store0, path_failed(num, "timeline"))
    /\ Said("timeline", "FAIL")
    /\ Created = {"comments", "xrefs"}

\* C20: when the process can be terminated between any two steps of
\* process_item and process_item is run again, then whenever a process_item
\* call has returned, no component of the ID has both its success marker and
\* its failure marker.
C20_SuccessClearsFailureInterrupted ==
    pc = "done" => \A n \in Ids, c \in Components : ~BothMarkers(store, n, c)

====
